---- MODULE Spec2Model ----
(***************************************************************************)
(* pdfminer/image.py: ImageWriter.  One ImageWriter exports a sequence of  *)
(* LTImage resources into one output directory.  export_image is modelled  *)
(* as one atomic step (the writer is single-threaded and synchronous).     *)
(***************************************************************************)
EXTENDS Integers, Sequences, FiniteSets, TLC

VARIABLES
    outdir,  \* the output directory: file name -> [writer, complete]
    pil,     \* whether `from PIL import Image` succeeds
    hist,    \* one record per export_image call made, in order
    last,    \* the call that just ended (NoCall once the caller went on)
    \* two exporters that share the output directory (_save_jpeg by steps)
    pc,         \* exporter -> where it stands in _save_jpeg
    frame,      \* exporter -> its locals: image.name, name, img_index
    overlapped, \* some call began while another exporter's call was running
    clobbered,  \* names opened for writing while the file already existed
    returned,   \* one record per _save_jpeg call that returned, in order
    \* pdfminer/encodingdb.py: EncodingDB
    heap,       \* object id -> Dict[int, str]: the shared tables and copies
    made        \* the last get_encoding call: arguments, result, heap before

raceVars == <<pc, frame, overlapped, clobbered, returned>>
encVars == <<heap, made>>
vars == <<outdir, pil, hist, last, raceVars, encVars>>

(* ------------------------------ bounds -------------------------------- *)

\* number of export_image calls in one run
MaxExports == 2
\* len(image.stream.get_data()) on the raw path ranges over 0..MaxLen
MaxLen == 4
\* entries of a filter chain
MaxChain == 2

(* --------------------------- input domains ---------------------------- *)

\* image.name: caller-assigned, not unique; "img.0" collides with the
\* first indexed name generated for "img"
Names == {"img", "img.0"}

\* image.srcsize: (width, height); a width of 0 divides by zero
SrcSizes == {<<0, 1>>, <<1, 1>>, <<2, 1>>, <<3, 1>>, <<1, 2>>}

\* image.bits
BitsValues == {1, 4, 8}

\* filter names as returned by image.stream.get_filters()
FilterNames == {"DCTDecode", "JPXDecode", "JBIG2Decode", "FlateDecode"}

LITERALS_DCT_DECODE == {"DCTDecode"}
LITERALS_JPX_DECODE == {"JPXDecode"}
LITERALS_JBIG2_DECODE == {"JBIG2Decode"}

\* one (filter_name, params) pair; globals: params has a "JBIG2Globals" key
FilterEntries ==
    {<<n, g>> : n \in FilterNames \ LITERALS_JBIG2_DECODE, g \in {FALSE}}
      \cup {<<n, g>> : n \in LITERALS_JBIG2_DECODE, g \in BOOLEAN}

\* every filter chain of up to MaxChain entries
Chains == UNION {[1..n -> FilterEntries] : n \in 0..MaxChain}

(* ------------------------------ helpers ------------------------------- *)

Last(s) == s[Len(s)]

\* the file names present in the output directory
Files(dir) == DOMAIN dir

\* open(path, "wb"): creates the file empty, or truncates an existing one
OpenWb(dir, name, who) ==
    [f \in Files(dir) \cup {name} |->
        IF f = name THEN [writer |-> who, complete |-> FALSE] ELSE dir[f]]

\* the with-block left normally after the data was written to fp
WriteAll(dir, name, who) ==
    [f \in Files(dir) \cup {name} |->
        IF f = name THEN [writer |-> who, complete |-> TRUE] ELSE dir[f]]

\* what the last export_image call read, chose and did
NoCall ==
    [call |-> 0, name |-> "", chain |-> <<>>, strategy |-> "none",
     result |-> "none", ret |-> "", ext |-> "", bits |-> 0, width |-> 0,
     height |-> 0, len |-> 0, mode |-> "unset", reads |-> 0,
     gdata |-> <<>>, idata |-> <<>>, input |-> <<>>, output |-> <<>>,
     before |-> <<>>]

\* the call that is running: the fields a path does not read keep NoCall's
Call(image, strategy, ext) ==
    [NoCall EXCEPT !.call = Len(hist) + 1, !.name = image.name,
                   !.chain = image.chain, !.strategy = strategy,
                   !.ext = ext, !.before = outdir]

\* the call ends: with `result` "ok" it returns `ret`, else it raises
Finish(call, result, ret, reads, dir) ==
    /\ last' = [call EXCEPT !.result = result, !.ret = ret, !.reads = reads]
    /\ hist' = Append(hist, [name |-> call.name, strategy |-> call.strategy,
                             ok |-> (result = "ok"), ret |-> ret])
    /\ outdir' = dir
    /\ UNCHANGED <<pil, raceVars, encVars>>

(* --------------------------- OutputNamer ------------------------------ *)

\* the while loop of _create_unique_image_name
RECURSIVE ProbeLoop(_, _, _, _, _)
ProbeLoop(files, base, ext, name, img_index) ==
    IF name \in files
    THEN ProbeLoop(files, base, ext,
                   base \o "." \o ToString(img_index) \o ext, img_index + 1)
    ELSE name

\* mutant: the index starts at 1, so base.0+ext is never tried
_create_unique_image_name_from1(files, base, ext) ==
    ProbeLoop(files, base, ext, base \o ext, 1)

_create_unique_image_name(files, base, ext) ==
    ProbeLoop(files, base, ext, base \o ext, 0)

(* ------------------------- ExportClassifier --------------------------- *)

\* mutant: only the last entry is looked at, as for DCT and JPX
_is_jbig2_iamge_last(chain) ==
    chain # <<>> /\ Last(chain)[1] \in LITERALS_JBIG2_DECODE

_is_jbig2_iamge(chain) ==
    \E i \in 1..Len(chain) : chain[i][1] \in LITERALS_JBIG2_DECODE

(* ----------------- SegmentReader (pdfminer.jbig2) --------------------- *)
(* A buffer is a sequence of bytes (0..255); positions are 1-based.        *)

\* the data-length field reserved for "unknown length": all bits set
DATA_LEN_UNKNOWN == <<255, 255, 255, 255>>

\* big-endian unsigned integer of the n bytes of buf from position pos
\* (the streams of this model hold no 4-byte field above 2^31 - 1 but the
\* unknown data length, which is compared as bytes)
RECURSIVE BigEndian(_, _, _)
BigEndian(buf, pos, n) ==
    IF n = 0 THEN 0
    ELSE BigEndian(buf, pos, n - 1) * 256 + buf[pos + n - 1]

\* whether n bytes can be read at pos without passing the end of buf
CanRead(buf, pos, n) == pos + n - 1 <= Len(buf)

\* the n bytes of buf from position pos
Bytes(buf, pos, n) == SubSeq(buf, pos, pos + n - 1)

\* size of one referred-to segment number, by the current segment's number
RefSize(number) ==
    IF number <= 256 THEN 1 ELSE IF number <= 65536 THEN 2 ELSE 4

\* size of the page association field, by bit 6 of the flags byte
PageSize(flags) == IF (flags \div 64) % 2 = 1 THEN 4 ELSE 1

\* number of retention-flag bytes of the long form
RetainBytes(count) == (count + 1 + 7) \div 8

\* the retention bits of the long-form bytes beyond the count + 1 declared
\* ones must be clear
PadClear(retain, count) ==
    LET used == (count + 1) % 8
    IN  \/ retain = <<>>
        \/ used = 0
        \/ Last(retain) \div (2 ^ used) = 0

ParseError(err) == [ok |-> FALSE, err |-> err]

\* steps 3 to 7 of the header parse, from the byte after the flags byte
ParseRest(buf, pos, number, flags) ==
    IF ~CanRead(buf, pos, 1) THEN ParseError("MalformedSegmentHeader")
    ELSE
    LET b == buf[pos]
        long == (b \div 32 = 7)
    IN  IF long /\ ~CanRead(buf, pos, 4)
        THEN ParseError("MalformedSegmentHeader")
        ELSE
        LET count == IF long
                     THEN (b % 32) * (2 ^ 24) + BigEndian(buf, pos + 1, 3)
                     ELSE b \div 32
            rlen == IF long THEN RetainBytes(count) ELSE 0
            rpos == IF long THEN pos + 4 ELSE pos + 1
            refpos == rpos + rlen
            refsize == RefSize(number)
            pagepos == refpos + count * refsize
            lenpos == pagepos + PageSize(flags)
            datapos == lenpos + 4
        IN  IF ~CanRead(buf, rpos, rlen)
            THEN ParseError("MalformedSegmentHeader")
            ELSE IF long /\ ~PadClear(Bytes(buf, rpos, rlen), count)
            THEN ParseError("CorruptSegmentCount")
            ELSE IF ~CanRead(buf, lenpos, 4)
            THEN ParseError("MalformedSegmentHeader")
            ELSE
            IF Bytes(buf, lenpos, 4) = DATA_LEN_UNKNOWN
            THEN ParseError("UnsupportedSegmentLength")
            ELSE
            LET length == BigEndian(buf, lenpos, 4)
            IN  IF ~CanRead(buf, datapos, length)
                THEN ParseError("MalformedSegmentHeader")
                ELSE [ok |-> TRUE,
                      next |-> datapos + length,
                      seg |-> [number |-> number,
                               flags |-> flags,
                               long |-> long,
                               count |-> count,
                               retain |-> IF long THEN Bytes(buf, rpos, rlen)
                                          ELSE <<b % 32>>,
                               refs |-> [i \in 1..count |->
                                           BigEndian(buf,
                                             refpos + (i - 1) * refsize,
                                             refsize)],
                               page |-> BigEndian(buf, pagepos,
                                                  PageSize(flags)),
                               payload |-> Bytes(buf, datapos, length)]]

\* one segment: its number (4 bytes), its flags byte, then the rest
ParseSegment(buf, pos) ==
    IF ~CanRead(buf, pos, 5) THEN ParseError("MalformedSegmentHeader")
    ELSE ParseRest(buf, pos + 5, BigEndian(buf, pos, 4), buf[pos + 4])

\* JBIG2StreamReader.get_segments: segments until the buffer is exhausted
RECURSIVE ReadFrom(_, _, _)
ReadFrom(buf, pos, segments) ==
    IF pos > Len(buf) THEN [ok |-> TRUE, segments |-> segments]
    ELSE LET r == ParseSegment(buf, pos)
         IN  IF r.ok THEN ReadFrom(buf, r.next, Append(segments, r.seg))
             ELSE r

get_segments(buf) == ReadFrom(buf, 1, <<>>)

(* ----------------- SegmentWriter (pdfminer.jbig2) --------------------- *)

\* the fixed 8-byte file identifier
FILE_HEADER_ID == <<151, 74, 66, 50, 13, 10, 26, 10>>

\* the file flags byte: sequential organisation, number of pages unknown
FILE_HEADER_FLAGS == 3

\* v as n big-endian bytes
RECURSIVE ToBytes(_, _)
ToBytes(v, n) ==
    IF n = 0 THEN <<>> ELSE Append(ToBytes(v \div 256, n - 1), v % 256)

RECURSIVE Concat(_)
Concat(seqs) ==
    IF seqs = <<>> THEN <<>> ELSE Head(seqs) \o Concat(Tail(seqs))

\* one segment header with the field widths the reader read, then its payload
encode_segment(seg) ==
    ToBytes(seg.number, 4)
      \o <<seg.flags>>
      \o (IF seg.long
          THEN <<224 + seg.count \div (2 ^ 24)>>
                 \o ToBytes(seg.count % (2 ^ 24), 3) \o seg.retain
          ELSE <<seg.count * 32 + seg.retain[1]>>)
      \o Concat([i \in 1..Len(seg.refs) |->
                   ToBytes(seg.refs[i], RefSize(seg.number))])
      \o ToBytes(seg.page, PageSize(seg.flags))
      \o ToBytes(Len(seg.payload), 4)
      \o seg.payload

\* the segments one after the other, in the order given
write_segments(segments) ==
    Concat([i \in 1..Len(segments) |-> encode_segment(segments[i])])

\* JBIG2StreamWriter.write_file: the file header, then the segments
write_file(segments) ==
    FILE_HEADER_ID \o <<FILE_HEADER_FLAGS>> \o write_segments(segments)

(* ------------------------ JBIG2 input streams ------------------------- *)

\* segments per well-formed image stream
MaxSegments == 1

\* a symbol dictionary, as a globals stream carries it; its payload ends
\* with a newline byte
SegGlobal ==
    [number |-> 0, flags |-> 0, long |-> FALSE, count |-> 0,
     retain |-> <<1>>, refs |-> <<>>, page |-> 0, payload |-> <<7, 10>>]

\* a generic region referring to segment 0, 4-byte page association
SegRegion ==
    [number |-> 1, flags |-> 64 + 38, long |-> FALSE, count |-> 1,
     retain |-> <<2>>, refs |-> <<0>>, page |-> 1, payload |-> <<10>>]

\* a text region numbered 300 (2-byte referred-to numbers), long form
SegText ==
    [number |-> 300, flags |-> 6, long |-> TRUE, count |-> 1,
     retain |-> <<3>>, refs |-> <<1>>, page |-> 1, payload |-> <<>>]

\* a segment header that declares the unknown data length
BytesUnknownLength ==
    ToBytes(2, 4) \o <<38, 0, 1>> \o DATA_LEN_UNKNOWN

\* a long-form header whose retention bytes set bits beyond count + 1
BytesCorruptCount ==
    ToBytes(2, 4) \o <<6>> \o <<224, 0, 0, 1>> \o <<255>>

\* the well-formed image streams: up to MaxSegments segments
ImageStreams ==
    UNION {[1..n -> {SegRegion, SegText}] : n \in 0..MaxSegments}

\* what image.stream.get_data() may return on the JBIG2 path: a well-formed
\* stream, one cut short by a byte, or a segment followed by a bad header
ImageData ==
    LET good == {write_segments(st) : st \in ImageStreams}
    IN  good
          \cup {SubSeq(d, 1, Len(d) - 1) : d \in good \ {<<>>}}
          \cup {encode_segment(SegRegion) \o BytesUnknownLength,
                encode_segment(SegRegion) \o BytesCorruptCount}

\* what the globals stream's get_data() may return: with and without
\* trailing newline bytes after the last segment
GlobalsData ==
    {<<>>,
     encode_segment(SegGlobal),
     encode_segment(SegGlobal) \o <<10>>,
     encode_segment([SegGlobal EXCEPT !.payload = <<7>>]) \o <<10, 10>>}

\* bytes.rstrip(b"\n")
RECURSIVE rstrip(_)
rstrip(data) ==
    IF data # <<>> /\ Last(data) = 10
    THEN rstrip(SubSeq(data, 1, Len(data) - 1))
    ELSE data

(* --------------------------- export paths ----------------------------- *)

\* mutant: the first candidate name is returned, not the unique one written
_save_jpeg_first_name(image) ==
    LET call == Call(image, "jpeg", ".jpg")
        name == _create_unique_image_name(Files(outdir), image.name, ".jpg")
    IN  Finish(call, "ok", image.name \o ".jpg", 1,
               WriteAll(outdir, name, call.call))

_save_jpeg(image) ==
    LET call == Call(image, "jpeg", ".jpg")
        name == _create_unique_image_name(Files(outdir), image.name, ".jpg")
    IN  Finish(call, "ok", name, 1, WriteAll(outdir, name, call.call))

\* what a call into the imaging library (PIL) does: it is an external
\* collaborator, so either outcome is possible
LibOutcomes == {"ok", "raise"}

_save_jpeg2000(image) ==
    LET call == Call(image, "jpeg2000", ".jp2")
        name == _create_unique_image_name(Files(outdir), image.name, ".jp2")
        opened == OpenWb(outdir, name, call.call)
    IN  IF ~pil
        THEN Finish(call, "ImportError", "", 1, opened)
        ELSE \E lib \in LibOutcomes :
               IF lib = "raise"
               THEN Finish(call, "LibraryError", "", 1, opened)
               ELSE Finish(call, "ok", name, 1,
                           WriteAll(outdir, name, call.call))

\* mutant: a final else gives the mode a default
SelectModeDefault(bits, num, den) ==
    IF bits = 1 THEN "1"
    ELSE IF bits = 8 /\ num = 1 * den THEN "L"
    ELSE IF bits = 8 /\ num = 3 * den THEN "RGB"
    ELSE IF bits = 8 /\ num = 4 * den THEN "CMYK"
    ELSE "RGB"

\* mutant: channels by floor division (// for /); den = 0 is not compared
SelectModeFloor(bits, num, den) ==
    IF bits = 1 THEN "1"
    ELSE IF den = 0 THEN "unset"
    ELSE IF bits = 8 /\ num \div den = 1 THEN "L"
    ELSE IF bits = 8 /\ num \div den = 3 THEN "RGB"
    ELSE IF bits = 8 /\ num \div den = 4 THEN "CMYK"
    ELSE "unset"

\* the if/elif chain of _save_bytes; channels is num/den as an exact rational
SelectMode(bits, num, den) ==
    IF bits = 1 THEN "1"
    ELSE IF bits = 8 /\ num = 1 * den THEN "L"
    ELSE IF bits = 8 /\ num = 3 * den THEN "RGB"
    ELSE IF bits = 8 /\ num = 4 * den THEN "CMYK"
    ELSE "unset"

_save_bytes(image) ==
    \E bits \in BitsValues, srcsize \in SrcSizes, n \in 0..MaxLen :
      LET width == srcsize[1]
          height == srcsize[2]
          call == [Call(image, "bytes", ".png") EXCEPT
                      !.bits = bits, !.width = width, !.height = height,
                      !.len = n]
          name == _create_unique_image_name(Files(outdir), image.name, ".png")
          opened == OpenWb(outdir, name, call.call)
          \* channels = len / width / height / (bits / 8)
          mode == SelectMode(bits, 8 * n, width * height * bits)
      IN  IF width = 0 \/ height = 0
          THEN Finish(call, "ZeroDivisionError", "", 1, outdir)
          ELSE IF ~pil
          THEN Finish(call, "ImportError", "", 1, opened)
          ELSE IF mode = "unset"
          THEN Finish(call, "UnboundLocalError", "", 1, opened)
          ELSE \E lib \in LibOutcomes :
                 IF lib = "raise"
                 THEN Finish([call EXCEPT !.mode = mode], "LibraryError", "",
                             2, opened)
                 ELSE Finish([call EXCEPT !.mode = mode], "ok", name, 2,
                             WriteAll(outdir, name, call.call))

\* the entries of the chain that append to global_streams
GlobalStreams(chain) ==
    {i \in 1..Len(chain) : chain[i][1] \in LITERALS_JBIG2_DECODE}

\* mutant: input_stream.seek(0) is left out, so the reader starts at the
\* end of the assembled stream
_save_jbig2_no_seek(image) ==
    LET call == Call(image, "jbig2", ".jb2")
        name == _create_unique_image_name(Files(outdir), image.name, ".jb2")
        opened == OpenWb(outdir, name, call.call)
        chain == image.chain
        global_streams == GlobalStreams(chain)
    IN  IF \E i \in global_streams : ~chain[i][2]
        THEN Finish(call, "KeyError", "", 0, opened)
        ELSE IF Cardinality(global_streams) > 1
        THEN Finish(call, "PDFValueError", "", 0, opened)
        ELSE \E gdata \in GlobalsData, idata \in ImageData :
               LET input_stream ==
                     (IF Cardinality(global_streams) = 1
                      THEN rstrip(gdata) ELSE <<>>) \o idata
                   reads == Cardinality(global_streams) + 1
                   read == get_segments(<<>>)
                   io == [call EXCEPT !.gdata = gdata, !.idata = idata,
                                      !.input = input_stream]
               IN  Finish([io EXCEPT !.output = write_file(read.segments)],
                          "ok", name, reads,
                          WriteAll(outdir, name, call.call))

_save_jbig2(image) ==
    LET call == Call(image, "jbig2", ".jb2")
        name == _create_unique_image_name(Files(outdir), image.name, ".jb2")
        opened == OpenWb(outdir, name, call.call)
        chain == image.chain
        global_streams == GlobalStreams(chain)
    IN  IF \E i \in global_streams : ~chain[i][2]
        THEN Finish(call, "KeyError", "", 0, opened)
        ELSE IF Cardinality(global_streams) > 1
        THEN Finish(call, "PDFValueError", "", 0, opened)
        ELSE \E gdata \in GlobalsData, idata \in ImageData :
               LET input_stream ==
                     (IF Cardinality(global_streams) = 1
                      THEN rstrip(gdata) ELSE <<>>) \o idata
                   reads == Cardinality(global_streams) + 1
                   read == get_segments(input_stream)
                   io == [call EXCEPT !.gdata = gdata, !.idata = idata,
                                      !.input = input_stream]
               IN  IF ~read.ok
                   THEN Finish(io, read.err, "", reads, opened)
                   ELSE Finish([io EXCEPT
                                  !.output = write_file(read.segments)],
                               "ok", name, reads,
                               WriteAll(outdir, name, call.call))

export_image(image) ==
    LET filters == image.chain
    IN  IF filters = <<>> THEN _save_bytes(image)
        ELSE IF Last(filters)[1] \in LITERALS_DCT_DECODE THEN _save_jpeg(image)
        ELSE IF Last(filters)[1] \in LITERALS_JPX_DECODE
        THEN _save_jpeg2000(image)
        ELSE IF _is_jbig2_iamge(filters) THEN _save_jbig2(image)
        ELSE _save_bytes(image)

(* ------------- two exporters, one directory (_save_jpeg) --------------- *)

\* two ImageWriter users exporting into the same outdir at the same time
Exporters == {"e1", "e2"}

\* number of _save_jpeg calls the two exporters make in one run
MaxRaceExports == 3

NoFrame == [base |-> "", name |-> "", img_index |-> 0]

RaceInit ==
    /\ pc = [e \in Exporters |-> "idle"]
    /\ frame = [e \in Exporters |-> NoFrame]
    /\ overlapped = FALSE
    /\ clobbered = {}
    /\ returned = <<>>

Running == {e \in Exporters : pc[e] # "idle"}

\* _save_jpeg is entered: get_data(), then the first three lines of
\* _create_unique_image_name
SaveJpegCall(e) ==
    /\ pc[e] = "idle"
    /\ Len(returned) + Cardinality(Running) < MaxRaceExports
    /\ \E base \in Names :
         frame' = [frame EXCEPT ![e] = [base |-> base,
                                        name |-> base \o ".jpg",
                                        img_index |-> 0]]
    /\ pc' = [pc EXCEPT ![e] = "probing"]
    /\ overlapped' = (overlapped \/ Running # {})
    /\ UNCHANGED <<outdir, clobbered, returned, pil, hist, last, encVars>>

\* mutant: the name is taken without asking whether the path exists
ProbeExistsNever(e) ==
    /\ pc[e] = "probing"
    /\ pc' = [pc EXCEPT ![e] = "named"]
    /\ UNCHANGED <<frame, outdir, overlapped, clobbered, returned,
                   pil, hist, last, encVars>>

\* one evaluation of `while os.path.exists(path)` and, if it is true, one
\* run of the loop body
ProbeExists(e) ==
    /\ pc[e] = "probing"
    /\ IF frame[e].name \in Files(outdir)
       THEN /\ frame' = [frame EXCEPT
                  ![e].name = frame[e].base \o "."
                                \o ToString(frame[e].img_index) \o ".jpg",
                  ![e].img_index = frame[e].img_index + 1]
            /\ UNCHANGED pc
       ELSE /\ pc' = [pc EXCEPT ![e] = "named"]
            /\ UNCHANGED frame
    /\ UNCHANGED <<outdir, overlapped, clobbered, returned,
                   pil, hist, last, encVars>>

\* open(path, "wb"): creates the file, or truncates the one that is there
OpenPath(e) ==
    /\ pc[e] = "named"
    /\ outdir' = OpenWb(outdir, frame[e].name, e)
    /\ clobbered' = IF frame[e].name \in Files(outdir)
                    THEN clobbered \cup {frame[e].name}
                    ELSE clobbered
    /\ pc' = [pc EXCEPT ![e] = "opened"]
    /\ UNCHANGED <<frame, overlapped, returned, pil, hist, last, encVars>>

\* fp.write(data), the with block closes the file, return name
WriteAndReturn(e) ==
    /\ pc[e] = "opened"
    /\ outdir' = WriteAll(outdir, frame[e].name, e)
    /\ returned' = Append(returned, [who |-> e, base |-> frame[e].base,
                                     name |-> frame[e].name])
    /\ pc' = [pc EXCEPT ![e] = "idle"]
    /\ frame' = [frame EXCEPT ![e] = NoFrame]
    /\ UNCHANGED <<overlapped, clobbered, pil, hist, last, encVars>>

NextRace ==
    \E e \in Exporters :
        \/ SaveJpegCall(e)
        \/ ProbeExists(e)
        \/ OpenPath(e)
        \/ WriteAndReturn(e)

(* ------------------- EncodingDB (encodingdb.py) ----------------------- *)

\* entries of a differences list
MaxDiff == 2

\* rows of pdfminer.latin_enc.ENCODING: name, std, mac, win, pdf; a column
\* that is None in the table is left out of the record
ENCODING ==
    << [name |-> "A", std |-> 65, mac |-> 65, win |-> 65, pdf |-> 65],
       [name |-> "AE", std |-> 225, mac |-> 174, win |-> 198, pdf |-> 198],
       [name |-> "Euro", win |-> 128, pdf |-> 160],
       [name |-> "bullet", std |-> 183, mac |-> 165, win |-> 149,
        pdf |-> 128] >>

\* d[k] = v on a dict
SetItem(d, k, v) ==
    [x \in DOMAIN d \cup {k} |-> IF x = k THEN v ELSE d[x]]

\* the class-body loop for one of the four columns: `if std:` skips None
\* and 0
RECURSIVE LoadColumn(_, _, _)
LoadColumn(rows, col, d) ==
    IF rows = <<>>
    THEN d
    ELSE LET row == Head(rows)
         IN  LoadColumn(Tail(rows), col,
                        IF col \in DOMAIN row /\ row[col] # 0
                        THEN SetItem(d, row[col], row.name)
                        ELSE d)

std2unicode == LoadColumn(ENCODING, "std", <<>>)
mac2unicode == LoadColumn(ENCODING, "mac", <<>>)
win2unicode == LoadColumn(ENCODING, "win", <<>>)
pdf2unicode == LoadColumn(ENCODING, "pdf", <<>>)

\* the four class attributes, as objects on the heap
SharedTables ==
    [std2unicode |-> std2unicode, mac2unicode |-> mac2unicode,
     win2unicode |-> win2unicode, pdf2unicode |-> pdf2unicode]

\* EncodingDB.encodings: name -> the table object it refers to
encodings ==
    [StandardEncoding |-> "std2unicode", MacRomanEncoding |-> "mac2unicode",
     WinAnsiEncoding |-> "win2unicode", PDFDocEncoding |-> "pdf2unicode"]

\* ids of the dicts that encoding.copy() creates
CopyIds == {"copy0", "copy1"}

\* base: a PSLiteral (lit, v its name) or a dict object (v its id)
Literal(name) == [lit |-> TRUE, v |-> name]
DictObject(id) == [lit |-> FALSE, v |-> id]
BaseNames == DOMAIN encodings \cup {"Identity-H"}

\* elements of a differences list: an int, a PSLiteral, anything else
DiffItems ==
    { [kind |-> "int", code |-> 128, name |-> ""],
      [kind |-> "literal", code |-> 0, name |-> "bullet"],
      [kind |-> "other", code |-> 0, name |-> ""] }

\* diff: None (given = FALSE) or a list
Diffs ==
    {[given |-> FALSE, items |-> <<>>]}
      \cup {[given |-> TRUE, items |-> s] :
              s \in UNION {[1..n -> DiffItems] : n \in 0..MaxDiff}}

\* `if diff:`
Truthy(diff) == diff.given /\ diff.items # <<>>

\* the object `encoding` is bound to before `if diff:`
Resolve(base) ==
    IF base.lit
    THEN IF base.v \in DOMAIN encodings
         THEN encodings[base.v]
         ELSE "std2unicode"
    ELSE base.v

\* `for x in diff:` from element i on, on the dict d with the current cid
RECURSIVE DiffLoop(_, _, _, _)
DiffLoop(d, items, i, cid) ==
    IF i > Len(items)
    THEN d
    ELSE LET x == items[i]
         IN  IF x.kind = "int"
             THEN DiffLoop(d, items, i + 1, x.code)
             ELSE IF x.kind = "literal"
             THEN DiffLoop(SetItem(d, cid, x.name), items, i + 1, cid + 1)
             ELSE DiffLoop(d, items, i + 1, cid)

\* mutant: encoding.copy() is left out, the loop writes into the table
get_encoding_nocopy(h, base, diff) ==
    LET encoding == Resolve(base)
    IN  IF Truthy(diff)
        THEN [heap |-> [h EXCEPT
                          ![encoding] = DiffLoop(h[encoding], diff.items,
                                                 1, 0)],
              ret |-> encoding]
        ELSE [heap |-> h, ret |-> encoding]

\* get_encoding on the heap h: the heap afterwards and the object returned
get_encoding(h, base, diff) ==
    LET encoding == Resolve(base)
        copy == CHOOSE id \in CopyIds : id \notin DOMAIN h
    IN  IF Truthy(diff)
        THEN [heap |-> SetItem(h, copy,
                               DiffLoop(h[encoding], diff.items, 1, 0)),
              ret |-> copy]
        ELSE [heap |-> h, ret |-> encoding]

NoEncCall ==
    [base |-> Literal(""), diff |-> [given |-> FALSE, items |-> <<>>],
     ret |-> "", before |-> <<>>]

EncInit ==
    /\ heap = SharedTables
    /\ made = NoEncCall

\* a caller calls get_encoding with a name or with a mapping it holds
GetEncoding ==
    /\ made = NoEncCall
    /\ \E base \in {Literal(n) : n \in BaseNames}
                  \cup {DictObject(id) : id \in DOMAIN heap},
       diff \in Diffs :
        LET r == get_encoding(heap, base, diff)
        IN  /\ heap' = r.heap
            /\ made' = [base |-> base, diff |-> diff, ret |-> r.ret,
                        before |-> heap]
            /\ UNCHANGED <<outdir, pil, hist, last, raceVars>>

\* the caller goes on with the mapping it was given; a copy it no longer
\* refers to is garbage
KeepResult ==
    /\ made # NoEncCall
    /\ heap' = [id \in DOMAIN SharedTables \cup {made.ret} |-> heap[id]]
    /\ made' = NoEncCall
    /\ UNCHANGED <<outdir, pil, hist, last, raceVars>>

NextEnc == GetEncoding \/ KeepResult

(* --------------------------- specification ---------------------------- *)

\* ImageWriter.__init__: the output directory did not exist and is made
Init ==
    /\ outdir = <<>>
    /\ pil \in BOOLEAN
    /\ hist = <<>>
    /\ last = NoCall
    /\ RaceInit
    /\ EncInit

\* the caller calls export_image on its next image
Export ==
    /\ last = NoCall
    /\ Len(hist) < MaxExports
    /\ \E name \in Names, chain \in Chains :
         export_image([name |-> name, chain |-> chain])

\* the caller has taken the returned name, or caught the exception
Return ==
    /\ last # NoCall
    /\ last' = NoCall
    /\ UNCHANGED <<outdir, pil, hist, raceVars, encVars>>

Next == Export \/ Return

Spec == Init /\ [][Next]_vars

SpecRace == Init /\ [][NextRace]_vars

SpecEnc == Init /\ [][NextEnc]_vars

(* ------------------------------ claims -------------------------------- *)

Exts == {".jpg", ".jp2", ".jb2", ".png"}

\* "%s.%d%s" % (base, k, ext)
Indexed(base, k, ext) == base \o "." \o ToString(k) \o ext

\* the extension the strategy's files carry
ExtensionOf(strategy) ==
    CASE strategy = "jpeg" -> ".jpg"
      [] strategy = "jpeg2000" -> ".jp2"
      [] strategy = "jbig2" -> ".jb2"
      [] strategy = "bytes" -> ".png"

\* the last call left the directory's set of file names as it found it
NoNewFile == Files(outdir) = Files(last.before)

\* C1: export_image picks its strategy by precedence: empty chain -> raw
\* bitmap; else last entry DCT -> JPEG passthrough; else last entry JPX ->
\* JPEG 2000 passthrough; else any entry JBIG2 -> JBIG2 transcode; else raw
\* bitmap; and each call dispatches exactly one strategy.
C1_ClassifierPrecedence ==
    last.call # 0 =>
      LET chain == last.chain
          lastIs(lits) == chain # <<>> /\ Last(chain)[1] \in lits
          anyJbig2 == \E i \in 1..Len(chain) :
                         chain[i][1] \in LITERALS_JBIG2_DECODE
      IN  /\ chain = <<>> => last.strategy = "bytes"
          /\ lastIs(LITERALS_DCT_DECODE) => last.strategy = "jpeg"
          /\ lastIs(LITERALS_JPX_DECODE) => last.strategy = "jpeg2000"
          /\ (chain # <<>> /\ ~lastIs(LITERALS_DCT_DECODE)
                /\ ~lastIs(LITERALS_JPX_DECODE) /\ anyJbig2)
               => last.strategy = "jbig2"
          /\ (chain # <<>> /\ ~lastIs(LITERALS_DCT_DECODE)
                /\ ~lastIs(LITERALS_JPX_DECODE) /\ ~anyJbig2)
               => last.strategy = "bytes"
          /\ Len(hist) = last.call
          /\ Last(hist).strategy = last.strategy

\* C1 witness: the chain [JBIG2, Other] was dispatched to the JBIG2 path
C1_Witness ==
    /\ last.chain = <<<<"JBIG2Decode", TRUE>>, <<"FlateDecode", FALSE>>>>
    /\ last.strategy = "jbig2"

\* C2: an export that fails on the raw-bitmap path because no pixel format
\* matches leaves the output directory's set of files as it was.
C2_NoFileOnUnsupportedFormat ==
    (last.strategy = "bytes" /\ last.result = "UnboundLocalError")
      => NoNewFile

ParseFailures ==
    {"MalformedSegmentHeader", "CorruptSegmentCount",
     "UnsupportedSegmentLength"}

\* C3: a JBIG2 transcode whose parse fails ends without a new .jb2 file in
\* the output directory, neither partial nor empty.
C3_NoFileOnFailedTranscode ==
    (last.strategy = "jbig2" /\ last.result \in ParseFailures) => NoNewFile

\* C4: a chain with more than one JBIG2 entry carrying globals fails before
\* any get_data call and before any output file is created.
C4_MultiplicityBeforeReadAndFile ==
    (last.strategy = "jbig2"
       /\ Cardinality({i \in 1..Len(last.chain) :
                         /\ last.chain[i][1] \in LITERALS_JBIG2_DECODE
                         /\ last.chain[i][2]}) > 1
       /\ \A i \in 1..Len(last.chain) :
            last.chain[i][1] \in LITERALS_JBIG2_DECODE => last.chain[i][2])
      => /\ last.result = "PDFValueError"
         /\ last.reads = 0
         /\ NoNewFile

\* the last call was a raw-bitmap export that got as far as choosing a mode
Reconstructs ==
    /\ last.strategy = "bytes"
    /\ last.result \notin {"ZeroDivisionError", "ImportError"}

\* len / width / height / (bits / 8) = c, as an exact rational
ChannelsAre(c) == 8 * last.len = c * last.width * last.height * last.bits

\* the quotient len / width / height / (bits / 8) is an integer
ChannelsIntegral ==
    (8 * last.len) % (last.width * last.height * last.bits) = 0

\* C5: the raw-bitmap path maps (bits, channels) to a mode: (1, any) -> "1",
\* (8,1) -> "L", (8,3) -> "RGB", (8,4) -> "CMYK"; every other combination
\* fails on the unset mode and no image is built from it.
C5_ModeMapping ==
    Reconstructs =>
      IF last.bits = 1
        THEN last.mode = "1" /\ last.result \in {"ok", "LibraryError"}
      ELSE IF last.bits = 8 /\ ChannelsAre(1)
        THEN last.mode = "L" /\ last.result \in {"ok", "LibraryError"}
      ELSE IF last.bits = 8 /\ ChannelsAre(3)
        THEN last.mode = "RGB" /\ last.result \in {"ok", "LibraryError"}
      ELSE IF last.bits = 8 /\ ChannelsAre(4)
        THEN last.mode = "CMYK" /\ last.result \in {"ok", "LibraryError"}
      ELSE /\ last.mode = "unset"
           /\ last.result = "UnboundLocalError"
           /\ last.reads = 1

\* C5 witness: 8 bits and 2 channels failed on the unset mode
C5_Witness ==
    /\ Reconstructs
    /\ last.bits = 8
    /\ ChannelsAre(2)
    /\ last.result = "UnboundLocalError"

\* C6 as claimed: the reconstruction fails whenever the channel quotient is
\* not an integer, for every bits value including 1.
C6_FractionalAlwaysFails ==
    (Reconstructs /\ ~ChannelsIntegral) => last.result = "UnboundLocalError"

\* C6 amended: a quotient that is not an integer fails for every bits value
\* other than 1; with bits = 1 the quotient is not consulted and the mode
\* is "1".
C6_FractionalFailsUnlessBilevel ==
    (Reconstructs /\ ~ChannelsIntegral) =>
      IF last.bits = 1
      THEN last.mode = "1" /\ last.result # "UnboundLocalError"
      ELSE last.mode = "unset" /\ last.result = "UnboundLocalError"

\* C6 witness: 8 bits, 3 bytes for 2 x 1 pixels (1.5 channels) failed
C6_Witness ==
    /\ Reconstructs
    /\ last.bits = 8 /\ last.width = 2 /\ last.height = 1 /\ last.len = 3
    /\ last.result = "UnboundLocalError"

\* name is what the naming policy gives for (base, ext) against files:
\* base+ext if free, else base.k+ext for the smallest k >= 0 that is free
PolicyName(files, base, ext, name) ==
    /\ name \notin files
    /\ base \o ext \notin files => name = base \o ext
    /\ base \o ext \in files =>
         \E k \in 0..Cardinality(files) :
           /\ name = Indexed(base, k, ext)
           /\ \A j \in 0..(k - 1) : Indexed(base, j, ext) \in files

\* C7: _create_unique_image_name returns base+ext if free, else base.k+ext
\* for the smallest free k >= 0, and never a name the directory holds: for
\* the name every successful export returned, and for every base name and
\* extension against every directory reached.
C7_UniqueNamePolicy ==
    /\ last.result = "ok" =>
         PolicyName(Files(last.before), last.name, last.ext, last.ret)
    /\ \A base \in Names, ext \in Exts :
         PolicyName(Files(outdir), base, ext,
                    _create_unique_image_name(Files(outdir), base, ext))

\* C7 witness: img.jpg was taken and img.0.jpg was returned, after which
\* the next free name for (img, .jpg) is img.1.jpg
C7_Witness ==
    /\ last.result = "ok"
    /\ last.name = "img"
    /\ "img.jpg" \in Files(last.before)
    /\ last.ret = "img.0.jpg"
    /\ _create_unique_image_name(Files(outdir), "img", ".jpg") = "img.1.jpg"

\* the exports that succeeded, in order
Successes == SelectSeq(hist, LAMBDA h : h.ok)

\* every call so far exported a resource named img on the raw-bitmap path
OnlyRawImg ==
    \A i \in 1..Len(hist) :
      hist[i].name = "img" /\ hist[i].strategy = "bytes"

\* C8: the names the successful exports returned are pairwise distinct, no
\* export changes a file that existed before it ran, and the first two
\* successful raw-bitmap exports of resources named img return img.png and
\* img.0.png, failed exports of img in between or before notwithstanding.
C8_DistinctNamesAndImgSequence ==
    /\ \A i, j \in 1..Len(Successes) :
         i # j => Successes[i].ret # Successes[j].ret
    /\ last.call # 0 =>
         \A f \in Files(last.before) :
           f \in Files(outdir) /\ outdir[f] = last.before[f]
    /\ OnlyRawImg =>
         /\ Len(Successes) >= 1 => Successes[1].ret = "img.png"
         /\ Len(Successes) >= 2 => Successes[2].ret = "img.0.png"

\* C9: a successful export creates exactly one new file, complete, returns
\* its name, and the name carries the strategy's extension.
C9_OneFilePerSuccess ==
    last.result = "ok" =>
      /\ last.ret \notin Files(last.before)
      /\ Files(outdir) = Files(last.before) \cup {last.ret}
      /\ outdir[last.ret] = [writer |-> last.call, complete |-> TRUE]
      /\ \A f \in Files(last.before) : outdir[f] = last.before[f]
      /\ \/ last.ret = last.name \o ExtensionOf(last.strategy)
         \/ \E k \in 0..Cardinality(Files(last.before)) :
              last.ret = Indexed(last.name, k, ExtensionOf(last.strategy))

\* C9 witness: a JBIG2 transcode succeeded and returned img.jb2
C9_Witness ==
    /\ last.result = "ok"
    /\ last.strategy = "jbig2"
    /\ last.ret = "img.jb2"
    /\ Files(outdir) = Files(last.before) \cup {"img.jb2"}

\* C10: without the imaging library the JPEG 2000 and raw-bitmap exports
\* fail with the ImportError and leave no file behind, while the JPEG and
\* JBIG2 exports are unaffected.
C10_MissingLibraryLeavesNoFile ==
    (~pil /\ last.call # 0) =>
      /\ (last.strategy = "jpeg2000"
            \/ (last.strategy = "bytes"
                  /\ last.result # "ZeroDivisionError"))
           => last.result = "ImportError" /\ NoNewFile
      /\ last.strategy = "jpeg" => last.result = "ok"
      /\ last.strategy = "jbig2" => last.result # "ImportError"

\* the well-formed segment lists a globals stream may put in front
GlobalsPrefixes ==
    {<<>>, <<SegGlobal>>, <<[SegGlobal EXCEPT !.payload = <<7>>]>>}

\* C11: the file written for a transcode that succeeded is the 8-byte
\* identifier, one flags byte, and then exactly the segments the reader
\* returned for the assembled input, in order and with every field and
\* payload byte unchanged; and for every well-formed stream of zero or one
\* globals segment and N image segments the reader returns those N (+1)
\* segments and the writer's output is the envelope plus the same bytes.
C11_RoundTrip ==
    /\ (last.strategy = "jbig2" /\ last.result = "ok") =>
         LET body == SubSeq(last.output, 10, Len(last.output))
         IN  /\ Len(last.output) >= 9
             /\ SubSeq(last.output, 1, 8) = FILE_HEADER_ID
             /\ get_segments(body) = get_segments(last.input)
             /\ body = last.input
    /\ hist = <<>> =>
         \A g \in GlobalsPrefixes, st \in ImageStreams :
           LET all == g \o st
               buf == write_segments(all)
           IN  /\ get_segments(buf) = [ok |-> TRUE, segments |-> all]
               /\ write_file(all)
                    = FILE_HEADER_ID \o <<FILE_HEADER_FLAGS>> \o buf

\* C11 witness: a globals segment and an image segment were transcoded
C11_Witness ==
    /\ last.strategy = "jbig2"
    /\ last.result = "ok"
    /\ last.gdata # <<>>
    /\ Len(get_segments(last.input).segments) = 2
    /\ Len(last.output) = 9 + Len(last.input)

\* the JBIG2 entries of the last call's chain that carry a globals reference
WithGlobals(chain) == {i \in GlobalStreams(chain) : chain[i][2]}

\* buf is data with only its trailing newline bytes removed
TrailingNewlinesRemoved(data, buf) ==
    \E k \in 0..Len(data) :
        /\ buf = SubSeq(data, 1, k)
        /\ \A j \in (k + 1)..Len(data) : data[j] = 10
        /\ k = 0 \/ data[k] # 10

\* the buffer of a call that carries a globals reference
AssembledWithGlobals ==
    (/\ last.strategy = "jbig2"
     /\ last.reads > 0
     /\ WithGlobals(last.chain) # {}) =>
        \E k \in 0..Len(last.input) :
            /\ TrailingNewlinesRemoved(last.gdata, SubSeq(last.input, 1, k))
            /\ SubSeq(last.input, k + 1, Len(last.input)) = last.idata

\* C13: the buffer handed to the segment reader is the globals data without
\* its trailing newline bytes followed by the unmodified image data when a
\* globals reference is present, and a JBIG2 entry without a globals
\* reference is transcoded from the image data alone, not rejected.
C13_InputAssembly ==
    /\ AssembledWithGlobals
    /\ (/\ last.strategy = "jbig2"
        /\ WithGlobals(last.chain) = {}) =>
           /\ last.result \notin {"KeyError", "PDFValueError"}
           /\ last.reads = 1
           /\ last.input = last.idata

\* no two calls that returned were given the same name
ReturnedNamesDistinct ==
    \A i, j \in 1..Len(returned) :
        i # j => returned[i].name # returned[j].name

\* C12: when the exports of the two exporters are serialized (no call
\* begins while another is running) every call returns a name of its own,
\* no file is opened over an existing one, and every returned name is a
\* complete file written by the call that returned it; the interleaving
\* in which both get the same name is the witness below.
C12_SerializedNeverCollides ==
    ~overlapped =>
        /\ clobbered = {}
        /\ ReturnedNamesDistinct
        /\ \A i \in 1..Len(returned) :
             /\ returned[i].name \in Files(outdir)
             /\ outdir[returned[i].name]
                  = [writer |-> returned[i].who, complete |-> TRUE]

\* C12 witness: both exporters, with the same base name, probed before
\* either created its file, were assigned the same name, and the second
\* open truncated the first one's file
C12_Witness ==
    /\ overlapped
    /\ Len(returned) = 2
    /\ returned[1].who # returned[2].who
    /\ returned[1].base = returned[2].base
    /\ returned[1].name = returned[2].name
    /\ returned[1].name \in clobbered
    /\ Cardinality(Files(outdir)) = 1

Max(S) == CHOOSE x \in S : \A y \in S : y <= x

\* the code the literal at position i of a differences list is stored at:
\* the last integer before it (0 if none) plus the literals in between
CodeAt(items, i) ==
    LET ints == {j \in 1..(i - 1) : items[j].kind = "int"}
        from == IF ints = {} THEN 0 ELSE Max(ints)
        start == IF ints = {} THEN 0 ELSE items[from].code
    IN  start + Cardinality({j \in (from + 1)..(i - 1) :
                               items[j].kind = "literal"})

StoredAt(items, c) ==
    {i \in 1..Len(items) : items[i].kind = "literal" /\ CodeAt(items, i) = c}

\* the mapping d with the differences applied to it
WithDifferences(d, items) ==
    LET codes == {CodeAt(items, i) :
                    i \in {j \in 1..Len(items) : items[j].kind = "literal"}}
    IN  [c \in DOMAIN d \cup codes |->
           IF StoredAt(items, c) # {}
           THEN items[Max(StoredAt(items, c))].name
           ELSE d[c]]

\* C14: after any sequence of get_encoding calls the four shared tables hold
\* what the class body put into them; a call changes no mapping that
\* existed before it; with a differences list it returns a new mapping,
\* the base with the differences applied, and without one the base itself.
C14_SharedTablesImmutable ==
    /\ \A id \in DOMAIN SharedTables :
         id \in DOMAIN heap /\ heap[id] = SharedTables[id]
    /\ made # NoEncCall =>
         /\ \A id \in DOMAIN made.before \cap DOMAIN heap :
              heap[id] = made.before[id]
         /\ IF Truthy(made.diff)
            THEN /\ made.ret \in CopyIds
                 /\ made.ret # Resolve(made.base)
                 /\ heap[made.ret]
                      = WithDifferences(made.before[Resolve(made.base)],
                                        made.diff.items)
            ELSE /\ made.ret = Resolve(made.base)
                 /\ DOMAIN heap \subseteq DOMAIN made.before

\* C14 witness: a call on WinAnsiEncoding with a differences list put
\* bullet at code 128 of the mapping it returned, and the shared table
\* still has Euro there
C14_Witness ==
    /\ made.base = Literal("WinAnsiEncoding")
    /\ Truthy(made.diff)
    /\ made.ret \in DOMAIN heap
    /\ 128 \in DOMAIN heap[made.ret]
    /\ heap[made.ret][128] = "bullet"
    /\ heap["win2unicode"][128] = "Euro"

====
